---- MODULE Spec2Model ----
(***************************************************************************)
(* Model of gpustack_runtime/detector/pyamdgpu/__init__.py: the lazily    *)
(* loaded libdrm_amdgpu library handle, the function-pointer cache, the    *)
(* AMDGPUError value, the struct <-> friendly-object conversion and the    *)
(* three device wrappers, run by concurrent Python threads.                *)
(***************************************************************************)
EXTENDS Integers, Sequences, FiniteSets, TLC

VARIABLES
    \* ---- module globals and the environment (session specification) ----
    platform,       \* sys.platform
    amdgpuLib,      \* the module global amdgpuLib (id 0 is None)
    libLoadLock,    \* holder of libLoadLock, or NoThread
    cache,          \* _amdgpuGetFunctionPointer_cache: name -> function pointer
    openFds,        \* descriptors opened by os.open and not closed by this module
    \* ---- per-thread position and locals ----
    pc, op, name, loc, fd, fn, ret, nat, result, calls,
    \* ---- history ----
    walks,          \* times the candidate list locs was walked
    failedWalks,    \* walks that ended with amdgpuLib still None
    loadSuccesses,  \* CDLL(loc) calls that returned a handle
    opens,          \* os.open calls that returned a descriptor
    nativeCalls,    \* per thread: native entry points invoked by the running operation
    loadedAtCall,   \* per thread: whether amdgpuLib was set when the operation began
    \* ---- error values (error specification) ----
    codeA, codeB, errA, errB, eqErr, eqInt, eqOther, chk, msg, epc,
    \* ---- struct marshalling (marshalling specification) ----
    mStruct, mView, mBack, mpc

sessionVars == <<platform, amdgpuLib, libLoadLock, cache, openFds, pc, op, name, loc,
                 fd, fn, ret, nat, result, calls, walks, failedWalks, loadSuccesses,
                 opens, nativeCalls, loadedAtCall>>
errVars == <<codeA, codeB, errA, errB, eqErr, eqInt, eqOther, chk, msg, epc>>
marshalVars == <<mStruct, mView, mBack, mpc>>
vars == <<sessionVars, errVars, marshalVars>>

(***************************************************************************)
(* Bounds of the model.                                                    *)
(***************************************************************************)
\* operations the threads may start in all
MaxCalls == 3

Threads == {"t1", "t2"}
NoThread == "none"

(***************************************************************************)
(* Error codes and the AMDGPUError value.                                  *)
(***************************************************************************)
AMDGPU_SUCCESS == 0
AMDGPU_ERROR_UNINITIALIZED == -99997
AMDGPU_ERROR_FUNCTION_NOT_FOUND == -99998
AMDGPU_ERROR_LIBRARY_NOT_FOUND == -99999

\* AMDGPUError._extend_errcode_to_string
_extend_errcode_to_string ==
    (AMDGPU_ERROR_UNINITIALIZED :> "Library Not Initialized")
    @@ (AMDGPU_ERROR_FUNCTION_NOT_FOUND :> "Function Not Found")
    @@ (AMDGPU_ERROR_LIBRARY_NOT_FOUND :> "Library Not Found")

\* errno.errorcode of the host (Linux): the keys, and the name of a key
ErrnoCodes == (1..132) \ {41, 58}
ErrnoName(n) ==
    CASE n = 2 -> "ENOENT"
      [] n = 12 -> "ENOMEM"
      [] n = 22 -> "EINVAL"
      [] OTHER -> <<"errno", n>>

\* a variant of __init__ that stores the code as given
AMDGPUError_keepSign(value) == [value |-> value]

\* AMDGPUError.__init__
AMDGPUError(value) ==
    [value |-> IF value \notin DOMAIN _extend_errcode_to_string THEN -value ELSE value]

\* AMDGPUError.__str__
AMDGPUError_str(self) ==
    IF self.value \in DOMAIN _extend_errcode_to_string
    THEN <<"AMDGPU error", self.value, _extend_errcode_to_string[self.value]>>
    ELSE IF self.value \notin ErrnoCodes
    THEN <<"Unknown AMDGPU error", self.value>>
    ELSE <<"AMDGPU error", self.value, ErrnoName(self.value)>>

\* Python objects an error may be compared with
PyError(e) == [type |-> "AMDGPUError", value |-> e.value]
PyInt(n) == [type |-> "int", value |-> n]
PyNone == [type |-> "NoneType", value |-> 0]

\* AMDGPUError.__eq__
AMDGPUError_eq(self, other) ==
    IF other.type = "AMDGPUError" THEN self.value = other.value
    ELSE IF other.type = "int" THEN self.value = other.value
    ELSE FALSE

\* outcomes of a call: a returned value or a raised exception
Return(v) == [kind |-> "return", exc |-> "", err |-> [value |-> 0], value |-> v]
Raise(e) == [kind |-> "raise", exc |-> "AMDGPUError", err |-> e, value |-> <<>>]
RaiseOther(x) == [kind |-> "raise", exc |-> x, err |-> [value |-> 0], value |-> <<>>]
NoResult == [kind |-> "none", exc |-> "", err |-> [value |-> 0], value |-> <<>>]

\* a variant of _amdgpuCheckReturn that treats only negative codes as failures
_amdgpuCheckReturn_negOnly(r) ==
    IF r < AMDGPU_SUCCESS THEN Raise(AMDGPUError(r)) ELSE Return(r)

\* _amdgpuCheckReturn
_amdgpuCheckReturn(r) ==
    IF r # AMDGPU_SUCCESS THEN Raise(AMDGPUError(r)) ELSE Return(r)

(***************************************************************************)
(* ctypes structures and the friendly-object conversion.                   *)
(***************************************************************************)
CType(base, dims) == [base |-> base, dims |-> dims]
c_uint == CType("c_uint", <<>>)
c_ulonglong == CType("c_ulonglong", <<>>)
c_uint_array(n) == CType("c_uint", <<n>>)
c_uint_array2(n, m) == CType("c_uint", <<n, m>>)

\* c_amdgpu_gpu_info._fields_
c_amdgpu_gpu_info_fields == <<
    <<"asic_id", c_uint>>,
    <<"chip_rev", c_uint>>,
    <<"chip_external_rev", c_uint>>,
    <<"family_id", c_uint>>,
    <<"ids_flags", c_ulonglong>>,
    <<"max_engine_clk", c_ulonglong>>,
    <<"max_memory_clk", c_ulonglong>>,
    <<"num_shader_engines", c_uint>>,
    <<"num_shader_arrays_per_engine", c_uint>>,
    <<"avail_quad_shader_pipes", c_uint>>,
    <<"max_quad_shader_pipes", c_uint>>,
    <<"cache_entries_per_quad_pipe", c_uint>>,
    <<"num_hw_gfx_contexts", c_uint>>,
    <<"rb_pipes", c_uint>>,
    <<"enabled_rb_pipes_mask", c_uint>>,
    <<"gpu_counter_freq", c_uint>>,
    <<"backend_disable", c_uint_array(4)>>,
    <<"mc_arb_ramcfg", c_uint>>,
    <<"gb_addr_cfg", c_uint>>,
    <<"gb_tile_mode", c_uint_array(32)>>,
    <<"gb_macro_tile_mode", c_uint_array(16)>>,
    <<"pa_sc_raster_cfg", c_uint_array(4)>>,
    <<"pa_sc_raster_cfg1", c_uint_array(4)>>,
    <<"cu_active_number", c_uint>>,
    <<"cu_ao_mask", c_uint>>,
    <<"cu_bitmap", c_uint_array2(4, 4)>>,
    <<"vram_type", c_uint>>,
    <<"vram_bit_width", c_uint>>,
    <<"ce_ram_size", c_uint>>,
    <<"vce_harvest_config", c_uint>>,
    <<"pci_rev_id", c_uint>> >>

FieldNames(fields) == {fields[i][1] : i \in 1..Len(fields)}
FieldType(fields, key) == (CHOOSE i \in 1..Len(fields) : fields[i][1] = key) 

\* the zero value ctypes gives a freshly constructed field
ZeroOf(ctype) ==
    IF ctype.base = "c_char" THEN <<>>
    ELSE IF Len(ctype.dims) = 0 THEN 0
    ELSE IF Len(ctype.dims) = 1 THEN [i \in 1..ctype.dims[1] |-> 0]
    ELSE [i \in 1..ctype.dims[1] |-> [j \in 1..ctype.dims[2] |-> 0]]

\* a structure instance: its class's _fields_ and the stored C values
NewStruct(fields) ==
    [fields |-> fields,
     vals |-> [k \in FieldNames(fields) |-> ZeroOf(fields[FieldType(fields, k)][2])]]

\* c_amdgpu_gpu_info()
c_amdgpu_gpu_info == NewStruct(c_amdgpu_gpu_info_fields)

PyArray(a) == [type |-> "array", value |-> a]
PyBytes(b) == [type |-> "bytes", value |-> b]
PyStr(s) == [type |-> "str", value |-> s]

\* bytes.decode() and str.encode() on ASCII text
decode(b) == PyStr(b.value)
encode(s) == PyBytes(s.value)

\* ctypes.Structure.__getattribute__: the Python object a field reads as
Structure_getattribute(struct, key) ==
    LET ctype == struct.fields[FieldType(struct.fields, key)][2] IN
    IF ctype.base = "c_char" THEN PyBytes(struct.vals[key])
    ELSE IF Len(ctype.dims) = 0 THEN PyInt(struct.vals[key])
    ELSE PyArray(struct.vals[key])

\* _PrintableStructure.__getattribute__
_PrintableStructure_getattribute(struct, key) ==
    LET res == Structure_getattribute(struct, key) IN
    IF res.type = "bytes" THEN decode(res) ELSE res

\* ctypes.Structure.__setattr__: the field's setter accepts only its own type
Structure_setattr(struct, key, value) ==
    LET ctype == struct.fields[FieldType(struct.fields, key)][2]
        want == IF ctype.base = "c_char" THEN "bytes"
                ELSE IF Len(ctype.dims) = 0 THEN "int" ELSE "array"
    IN  IF value.type # want THEN RaiseOther("TypeError")
        ELSE IF want = "bytes" /\ Len(value.value) > ctype.dims[1]
        THEN RaiseOther("ValueError")
        ELSE Return([struct EXCEPT !.vals[key] = value.value])

\* _PrintableStructure.__setattr__
_PrintableStructure_setattr(struct, key, value) ==
    Structure_setattr(struct, key, IF value.type = "str" THEN encode(value) ELSE value)

\* amdgpuStructToFriendlyObject: the attribute dictionary of the friendly object
amdgpuStructToFriendlyObject(struct) ==
    [key \in FieldNames(struct.fields) |->
        LET value == _PrintableStructure_getattribute(struct, key) IN
        IF value.type = "bytes" THEN decode(value) ELSE value]

\* value.encode(): only str has the method
Py_encode(value) ==
    IF value.type = "str" THEN Return(encode(value)) ELSE RaiseOther("AttributeError")

\* the loop of amdgpuFriendlyObjectToStruct from field i on
RECURSIVE FriendlyObjectToStructFrom(_, _, _)
FriendlyObjectToStructFrom(obj, model, i) ==
    IF i > Len(model.fields) THEN Return(model)
    ELSE LET key == model.fields[i][1]
             enc == Py_encode(obj[key])
         IN  IF enc.kind = "raise" THEN enc
             ELSE LET set == _PrintableStructure_setattr(model, key, enc.value) IN
                  IF set.kind = "raise" THEN set
                  ELSE FriendlyObjectToStructFrom(obj, set.value, i + 1)

\* amdgpuFriendlyObjectToStruct
amdgpuFriendlyObjectToStruct(obj, model) == FriendlyObjectToStructFrom(obj, model, 1)

(***************************************************************************)
(* The error specification: error values are built from two codes,         *)
(* compared, and the first code is translated.                             *)
(***************************************************************************)
\* codes the error operations are applied to: success, errno codes of both
\* signs, codes outside the errno table, the sentinels and their negations
Codes == {0, 2, -2, 12, -12, 22, -22, 200, -200,
          99997, -99997, 99998, -99998, 99999, -99999}

NoError == [value |-> 0]

InitErrIdle ==
    /\ codeA = 0 /\ codeB = 0
    /\ errA = NoError /\ errB = NoError
    /\ eqErr = FALSE /\ eqInt = FALSE /\ eqOther = FALSE
    /\ chk = NoResult /\ msg = <<>> /\ epc = "idle"

InitErr ==
    /\ codeA \in Codes /\ codeB \in Codes
    /\ errA = NoError /\ errB = NoError
    /\ eqErr = FALSE /\ eqInt = FALSE /\ eqOther = FALSE
    /\ chk = NoResult /\ msg = <<>> /\ epc = "start"

\* AMDGPUError(codeA), AMDGPUError(codeB)
ErrConstruct ==
    /\ epc = "start"
    /\ errA' = AMDGPUError(codeA)
    /\ errB' = AMDGPUError(codeB)
    /\ epc' = "built"
    /\ UNCHANGED <<codeA, codeB, eqErr, eqInt, eqOther, chk, msg>>

\* errA == errB, errA == codeA, errA == None
ErrCompare ==
    /\ epc = "built"
    /\ eqErr' = AMDGPUError_eq(errA, PyError(errB))
    /\ eqInt' = AMDGPUError_eq(errA, PyInt(codeA))
    /\ eqOther' = AMDGPUError_eq(errA, PyNone)
    /\ epc' = "compared"
    /\ UNCHANGED <<codeA, codeB, errA, errB, chk, msg>>

\* _amdgpuCheckReturn(codeA), and str() of the error it raises
ErrTranslate ==
    /\ epc = "compared"
    /\ chk' = _amdgpuCheckReturn(codeA)
    /\ msg' = IF chk'.kind = "raise" THEN AMDGPUError_str(chk'.err) ELSE <<>>
    /\ epc' = "translated"
    /\ UNCHANGED <<codeA, codeB, errA, errB, eqErr, eqInt, eqOther>>

(***************************************************************************)
(* The marshalling specification: a filled c_amdgpu_gpu_info is converted  *)
(* to a friendly object and packed back into a fresh c_amdgpu_gpu_info.    *)
(***************************************************************************)
\* values the native library may have written into the scalar fields
FamilyIds == {0, 110, 141, 143, 148}
AsicIds == {0, 26591, 29772, 29888, 30031}
VramTypes == {0, 5, 6, 9, 10}

InitMarshalIdle ==
    /\ mStruct = c_amdgpu_gpu_info /\ mView = <<>> /\ mBack = NoResult /\ mpc = "idle"

InitMarshal ==
    /\ \E f \in FamilyIds, a \in AsicIds, v \in VramTypes :
          mStruct = [c_amdgpu_gpu_info EXCEPT !.vals["family_id"] = f,
                                              !.vals["asic_id"] = a,
                                              !.vals["vram_type"] = v]
    /\ mView = <<>> /\ mBack = NoResult /\ mpc = "struct"

\* obj = amdgpuStructToFriendlyObject(struct)
MarshalToFriendly ==
    /\ mpc = "struct"
    /\ mView' = amdgpuStructToFriendlyObject(mStruct)
    /\ mpc' = "friendly"
    /\ UNCHANGED <<mStruct, mBack>>

\* amdgpuFriendlyObjectToStruct(obj, c_amdgpu_gpu_info())
MarshalToStruct ==
    /\ mpc = "friendly"
    /\ mBack' = amdgpuFriendlyObjectToStruct(mView, NewStruct(mStruct.fields))
    /\ mpc' = "back"
    /\ UNCHANGED <<mStruct, mView>>

(***************************************************************************)
(* The session specification: threads calling _LoadAMDGPULibrary,          *)
(* _amdgpuGetFunctionPointer and the three device wrappers.                *)
(***************************************************************************)
\* the native entry points a libdrm_amdgpu build may export
EntryPoints == {"amdgpu_device_initialize", "amdgpu_device_deinitialize",
                "amdgpu_query_gpu_info"}

\* the symbol tables of the libraries CDLL may find (real and stub builds)
StubLibs == SUBSET EntryPoints

\* locs in _LoadAMDGPULibrary
locs == <<"libdrm_amdgpu.so.1.0.0", "libdrm_amdgpu.so">>

Platforms == {"linux", "win32"}

\* amdgpuLib = None
None == [id |-> 0, syms |-> {}]
NoFn == [lib |-> 0, sym |-> ""]

\* return codes of the native entry points: success, -ENOMEM, a positive code
NativeRets == {0, -12, 22}

\* what the native initialize writes through its output parameters
InitWrites == {[major |-> 3, minor |-> 57, device |-> 1],
               [major |-> 3, minor |-> 54, device |-> 2]}
\* c_major = c_uint32(); c_minor = c_uint32(); device = c_amdgpu_device_t()
InitOutputs == [major |-> 0, minor |-> 0, device |-> 0]

InitSession ==
    /\ platform \in Platforms
    /\ amdgpuLib = None
    /\ libLoadLock = NoThread
    /\ cache = <<>>
    /\ openFds = {}
    /\ pc = [t \in Threads |-> "idle"]
    /\ op = [t \in Threads |-> ""]
    /\ name = [t \in Threads |-> ""]
    /\ loc = [t \in Threads |-> 0]
    /\ fd = [t \in Threads |-> 0]
    /\ fn = [t \in Threads |-> NoFn]
    /\ ret = [t \in Threads |-> 0]
    /\ nat = [t \in Threads |-> <<>>]
    /\ result = [t \in Threads |-> NoResult]
    /\ calls = 0
    /\ walks = 0 /\ failedWalks = 0 /\ loadSuccesses = 0 /\ opens = 0
    /\ nativeCalls = [t \in Threads |-> 0]
    /\ loadedAtCall = [t \in Threads |-> FALSE]

globalVars == <<platform, amdgpuLib, libLoadLock, cache, openFds>>
loadHist == <<walks, failedWalks, loadSuccesses>>
otherVars == <<errVars, marshalVars>>

\* a thread starts operation o at position p
Begin(t, o, p, n, out) ==
    /\ pc[t] = "idle"
    /\ calls < MaxCalls
    /\ calls' = calls + 1
    /\ op' = [op EXCEPT ![t] = o]
    /\ pc' = [pc EXCEPT ![t] = p]
    /\ name' = [name EXCEPT ![t] = n]
    /\ nat' = [nat EXCEPT ![t] = out]
    /\ nativeCalls' = [nativeCalls EXCEPT ![t] = 0]
    /\ loadedAtCall' = [loadedAtCall EXCEPT ![t] = amdgpuLib # None]
    /\ UNCHANGED <<globalVars, loadHist, opens, loc, fd, fn, ret, result, otherVars>>

\* _LoadAMDGPULibrary()
Call_load(t) == Begin(t, "load", "L214", "", <<>>)
\* _amdgpuGetFunctionPointer(n)
Call_resolve(t) == \E n \in EntryPoints : Begin(t, "resolve", "R85", n, <<>>)
\* amdgpu_device_initialize(card): line 240 calls _LoadAMDGPULibrary
Call_initialize(t) == Begin(t, "initialize", "L214", "", <<>>)
\* amdgpu_device_deinitialize(device): line 257 calls _amdgpuGetFunctionPointer
Call_deinitialize(t) == Begin(t, "deinitialize", "R85", "amdgpu_device_deinitialize", <<>>)
\* amdgpu_query_gpu_info(device): line 263 allocates c_info, line 264 resolves
Call_query(t) ==
    Begin(t, "query", "R85", "amdgpu_query_gpu_info", [info |-> c_amdgpu_gpu_info])

\* where _LoadAMDGPULibrary returns to
AfterLoad(t) == IF op[t] = "load" THEN "done" ELSE "I242"
LoadResult(t) == IF op[t] = "load" THEN Return(<<>>) ELSE result[t]

\* line 214: the unlocked check
L214(t) ==
    /\ pc[t] = "L214"
    /\ IF amdgpuLib = None
       THEN pc' = [pc EXCEPT ![t] = "L215"] /\ UNCHANGED result
       ELSE /\ pc' = [pc EXCEPT ![t] = AfterLoad(t)]
            /\ result' = [result EXCEPT ![t] = LoadResult(t)]
    /\ UNCHANGED <<globalVars, loadHist, opens, nativeCalls, loadedAtCall,
                   op, name, loc, fd, fn, ret, nat, calls, otherVars>>

\* line 215: libLoadLock.acquire()
L215(t) ==
    /\ pc[t] = "L215"
    /\ libLoadLock = NoThread
    /\ libLoadLock' = t
    /\ pc' = [pc EXCEPT ![t] = "L217"]
    /\ UNCHANGED <<platform, amdgpuLib, cache, openFds, loadHist, opens, nativeCalls,
                   loadedAtCall, op, name, loc, fd, fn, ret, nat, result,
                   calls, otherVars>>

\* the platform check and the start of the walk over locs (lines 218-226)
StartWalk(t) ==
    IF platform = "win32"
    THEN /\ result' = [result EXCEPT ![t] = Raise(AMDGPUError(AMDGPU_ERROR_LIBRARY_NOT_FOUND))]
         /\ pc' = [pc EXCEPT ![t] = "L235"]
         /\ UNCHANGED <<walks, loc>>
    ELSE /\ walks' = walks + 1
         /\ loc' = [loc EXCEPT ![t] = 1]
         /\ pc' = [pc EXCEPT ![t] = "L228"]
         /\ UNCHANGED result

\* a variant of line 217 without the check under the lock
L217_noRecheck(t) ==
    /\ pc[t] = "L217"
    /\ StartWalk(t)
    /\ UNCHANGED <<globalVars, failedWalks, loadSuccesses, opens, nativeCalls,
                   loadedAtCall, op, name, fd, fn, ret, nat, calls,
                   otherVars>>

\* line 217: the check under the lock
L217(t) ==
    /\ pc[t] = "L217"
    /\ IF amdgpuLib = None
       THEN StartWalk(t)
       ELSE pc' = [pc EXCEPT ![t] = "L235"] /\ UNCHANGED <<walks, loc, result>>
    /\ UNCHANGED <<globalVars, failedWalks, loadSuccesses, opens, nativeCalls,
                   loadedAtCall, op, name, fd, fn, ret, nat, calls,
                   otherVars>>

\* CDLL(loc) returns a handle, which is assigned to amdgpuLib
Assign(syms) ==
    /\ amdgpuLib' = [id |-> loadSuccesses + 1, syms |-> syms]
    /\ loadSuccesses' = loadSuccesses + 1

\* a variant of lines 228-229 without the break
L228_ok_noBreak(t) ==
    /\ pc[t] = "L228"
    /\ \E syms \in StubLibs : Assign(syms)
    /\ IF loc[t] < Len(locs)
       THEN loc' = [loc EXCEPT ![t] = @ + 1] /\ UNCHANGED pc
       ELSE pc' = [pc EXCEPT ![t] = "L232"] /\ UNCHANGED loc
    /\ UNCHANGED <<platform, libLoadLock, cache, openFds, walks, failedWalks, opens,
                   nativeCalls, loadedAtCall, op, name, fd, fn, ret, nat,
                   result, calls, otherVars>>

\* lines 228-229: amdgpuLib = CDLL(loc); break
L228_ok(t) ==
    /\ pc[t] = "L228"
    /\ \E syms \in StubLibs : Assign(syms)
    /\ pc' = [pc EXCEPT ![t] = "L232"]
    /\ UNCHANGED <<platform, libLoadLock, cache, openFds, walks, failedWalks, opens,
                   nativeCalls, loadedAtCall, op, name, loc, fd, fn, ret,
                   nat, result, calls, otherVars>>

\* lines 228-231: CDLL(loc) raises OSError; the loop goes on to the next candidate
L228_OSError(t) ==
    /\ pc[t] = "L228"
    /\ IF loc[t] < Len(locs)
       THEN loc' = [loc EXCEPT ![t] = @ + 1] /\ UNCHANGED pc
       ELSE pc' = [pc EXCEPT ![t] = "L232"] /\ UNCHANGED loc
    /\ UNCHANGED <<globalVars, loadHist, opens, nativeCalls, loadedAtCall,
                   op, name, fd, fn, ret, nat, result, calls, otherVars>>

\* lines 232-233: raise LibraryNotFound when every candidate failed
L232(t) ==
    /\ pc[t] = "L232"
    /\ IF amdgpuLib = None
       THEN /\ result' = [result EXCEPT ![t] =
                             Raise(AMDGPUError(AMDGPU_ERROR_LIBRARY_NOT_FOUND))]
            /\ failedWalks' = failedWalks + 1
       ELSE UNCHANGED <<result, failedWalks>>
    /\ pc' = [pc EXCEPT ![t] = "L235"]
    /\ loc' = [loc EXCEPT ![t] = 0]
    /\ UNCHANGED <<globalVars, walks, loadSuccesses, opens, nativeCalls, loadedAtCall,
                   op, name, fd, fn, ret, nat, calls, otherVars>>

\* lines 234-235: finally: libLoadLock.release(), then return or re-raise
L235(t) ==
    /\ pc[t] = "L235"
    /\ libLoadLock' = NoThread
    /\ IF result[t].kind = "raise"
       THEN pc' = [pc EXCEPT ![t] = "done"] /\ UNCHANGED result
       ELSE /\ pc' = [pc EXCEPT ![t] = AfterLoad(t)]
            /\ result' = [result EXCEPT ![t] = LoadResult(t)]
    /\ UNCHANGED <<platform, amdgpuLib, cache, openFds, loadHist, opens, nativeCalls,
                   loadedAtCall, op, name, loc, fd, fn, ret, nat, calls,
                   otherVars>>

\* where _amdgpuGetFunctionPointer returns to
AfterResolve(t) ==
    CASE op[t] = "resolve" -> "done"
      [] op[t] = "initialize" -> "I251"
      [] op[t] = "deinitialize" -> "D258"
      [] op[t] = "query" -> "Q265"
ResolveResult(t, f) == IF op[t] = "resolve" THEN Return(f) ELSE result[t]

\* lines 85-86: the unlocked cache lookup
R85(t) ==
    /\ pc[t] = "R85"
    /\ IF name[t] \in DOMAIN cache
       THEN /\ fn' = [fn EXCEPT ![t] = cache[name[t]]]
            /\ pc' = [pc EXCEPT ![t] = AfterResolve(t)]
            /\ result' = [result EXCEPT ![t] = ResolveResult(t, cache[name[t]])]
       ELSE pc' = [pc EXCEPT ![t] = "R88"] /\ UNCHANGED <<fn, result>>
    /\ UNCHANGED <<globalVars, loadHist, opens, nativeCalls, loadedAtCall,
                   op, name, loc, fd, ret, nat, calls, otherVars>>

\* line 88: libLoadLock.acquire()
R88(t) ==
    /\ pc[t] = "R88"
    /\ libLoadLock = NoThread
    /\ libLoadLock' = t
    /\ pc' = [pc EXCEPT ![t] = "R90"]
    /\ UNCHANGED <<platform, amdgpuLib, cache, openFds, loadHist, opens, nativeCalls,
                   loadedAtCall, op, name, loc, fd, fn, ret, nat, result,
                   calls, otherVars>>

\* a variant of lines 90-91 without the None check
R90_noCheck(t) ==
    /\ pc[t] = "R90"
    /\ pc' = [pc EXCEPT ![t] = "R93"]
    /\ UNCHANGED <<globalVars, loadHist, opens, nativeCalls, loadedAtCall,
                   op, name, loc, fd, fn, ret, nat, result, calls, otherVars>>

\* lines 90-91: raise Uninitialized while amdgpuLib is None
R90(t) ==
    /\ pc[t] = "R90"
    /\ IF amdgpuLib = None
       THEN /\ result' = [result EXCEPT ![t] =
                             Raise(AMDGPUError(AMDGPU_ERROR_UNINITIALIZED))]
            /\ pc' = [pc EXCEPT ![t] = "R98"]
       ELSE pc' = [pc EXCEPT ![t] = "R93"] /\ UNCHANGED result
    /\ UNCHANGED <<globalVars, loadHist, opens, nativeCalls, loadedAtCall,
                   op, name, loc, fd, fn, ret, nat, calls, otherVars>>

\* getattr(amdgpuLib, name): the function pointer of an exported symbol
FnPointer(lib, n) == [lib |-> lib.id, sym |-> n]

\* a variant of lines 92-96 that caches a null pointer on a miss
R93_cacheMiss(t) ==
    /\ pc[t] = "R93"
    /\ IF name[t] \in amdgpuLib.syms
       THEN /\ cache' = (name[t] :> FnPointer(amdgpuLib, name[t])) @@ cache
            /\ fn' = [fn EXCEPT ![t] = FnPointer(amdgpuLib, name[t])]
            /\ UNCHANGED result
       ELSE /\ cache' = (name[t] :> NoFn) @@ cache
            /\ result' = [result EXCEPT ![t] =
                             Raise(AMDGPUError(AMDGPU_ERROR_FUNCTION_NOT_FOUND))]
            /\ UNCHANGED fn
    /\ pc' = [pc EXCEPT ![t] = "R98"]
    /\ UNCHANGED <<platform, amdgpuLib, libLoadLock, openFds, loadHist, opens,
                   nativeCalls, loadedAtCall, op, name, loc, fd, ret, nat,
                   calls, otherVars>>

\* lines 92-96: cache and return the attribute, or raise FunctionNotFound
R93(t) ==
    /\ pc[t] = "R93"
    /\ IF name[t] \in amdgpuLib.syms
       THEN /\ cache' = (name[t] :> FnPointer(amdgpuLib, name[t])) @@ cache
            /\ fn' = [fn EXCEPT ![t] = cache'[name[t]]]
            /\ UNCHANGED result
       ELSE /\ result' = [result EXCEPT ![t] =
                             Raise(AMDGPUError(AMDGPU_ERROR_FUNCTION_NOT_FOUND))]
            /\ UNCHANGED <<cache, fn>>
    /\ pc' = [pc EXCEPT ![t] = "R98"]
    /\ UNCHANGED <<platform, amdgpuLib, libLoadLock, openFds, loadHist, opens,
                   nativeCalls, loadedAtCall, op, name, loc, fd, ret, nat,
                   calls, otherVars>>

\* a variant of lines 97-98 in which the caller goes on after a failed lookup
R98_swallow(t) ==
    /\ pc[t] = "R98"
    /\ libLoadLock' = NoThread
    /\ pc' = [pc EXCEPT ![t] = AfterResolve(t)]
    /\ result' = [result EXCEPT ![t] =
                     IF result[t].kind = "raise" THEN result[t] ELSE ResolveResult(t, fn[t])]
    /\ UNCHANGED <<platform, amdgpuLib, cache, openFds, loadHist, opens, nativeCalls,
                   loadedAtCall, op, name, loc, fd, fn, ret, nat, calls,
                   otherVars>>

\* lines 97-98: finally: libLoadLock.release(), then return or re-raise
R98(t) ==
    /\ pc[t] = "R98"
    /\ libLoadLock' = NoThread
    /\ IF result[t].kind = "raise"
       THEN pc' = [pc EXCEPT ![t] = "done"] /\ UNCHANGED result
       ELSE /\ pc' = [pc EXCEPT ![t] = AfterResolve(t)]
            /\ result' = [result EXCEPT ![t] = ResolveResult(t, fn[t])]
    /\ UNCHANGED <<platform, amdgpuLib, cache, openFds, loadHist, opens, nativeCalls,
                   loadedAtCall, op, name, loc, fd, fn, ret, nat, calls,
                   otherVars>>

\* os.open returns the lowest descriptor not in use (0, 1, 2 are the standard streams)
NextFd == CHOOSE n \in 3..(3 + Cardinality(openFds)) : n \notin openFds

\* lines 242-246: fd = os.open(...) succeeds; the outputs are allocated; resolve begins
I242_open(t) ==
    /\ pc[t] = "I242"
    /\ fd' = [fd EXCEPT ![t] = NextFd]
    /\ openFds' = openFds \cup {NextFd}
    /\ opens' = opens + 1
    /\ nat' = [nat EXCEPT ![t] = InitOutputs]
    /\ name' = [name EXCEPT ![t] = "amdgpu_device_initialize"]
    /\ pc' = [pc EXCEPT ![t] = "R85"]
    /\ UNCHANGED <<platform, amdgpuLib, libLoadLock, cache, loadHist, nativeCalls,
                   loadedAtCall, op, loc, fn, ret, result, calls, otherVars>>

\* line 242: os.open raises OSError
I242_OSError(t) ==
    /\ pc[t] = "I242"
    /\ result' = [result EXCEPT ![t] = RaiseOther("OSError")]
    /\ pc' = [pc EXCEPT ![t] = "done"]
    /\ UNCHANGED <<globalVars, loadHist, opens, nativeCalls, loadedAtCall,
                   op, name, loc, fd, fn, ret, nat, calls, otherVars>>

\* a native entry point is invoked by thread t and returns r, having written w
NativeCall(t, r, w, next) ==
    /\ nativeCalls' = [nativeCalls EXCEPT ![t] = @ + 1]
    /\ ret' = [ret EXCEPT ![t] = r]
    /\ nat' = [nat EXCEPT ![t] = w]
    /\ pc' = [pc EXCEPT ![t] = next]
    /\ UNCHANGED <<globalVars, loadHist, opens, loadedAtCall, op, name,
                   loc, fd, fn, result, calls, otherVars>>

\* line 251: ret = fn(fd, byref(c_major), byref(c_minor), byref(device)); a failing
\* call may leave the outputs untouched or have written the version only
I251(t) ==
    /\ pc[t] = "I251"
    /\ \E r \in NativeRets :
        \E w \in (IF r = 0 THEN InitWrites
                  ELSE {nat[t], [nat[t] EXCEPT !.major = 3, !.minor = 57]}) :
            NativeCall(t, r, w, "I252")

\* what a wrapper does with _amdgpuCheckReturn(ret): re-raise, or return value v
Checked(t, v) ==
    LET c == _amdgpuCheckReturn(ret[t]) IN
    /\ result' = [result EXCEPT ![t] = IF c.kind = "raise" THEN c ELSE Return(v)]
    /\ pc' = [pc EXCEPT ![t] = "done"]

\* a variant of lines 252-253 that closes the descriptor when the native call failed
I252_closeOnFail(t) ==
    /\ pc[t] = "I252"
    /\ Checked(t, <<nat[t].major, nat[t].minor, nat[t].device>>)
    /\ openFds' = IF ret[t] # 0 THEN openFds \ {fd[t]} ELSE openFds
    /\ UNCHANGED <<platform, amdgpuLib, libLoadLock, cache, loadHist, opens, nativeCalls,
                   loadedAtCall, op, name, loc, fd, fn, ret, nat, calls,
                   otherVars>>

\* lines 252-253: _amdgpuCheckReturn(ret); return c_major.value, c_minor.value, device
I252(t) ==
    /\ pc[t] = "I252"
    /\ Checked(t, <<nat[t].major, nat[t].minor, nat[t].device>>)
    /\ UNCHANGED <<globalVars, loadHist, opens, nativeCalls, loadedAtCall,
                   op, name, loc, fd, fn, ret, nat, calls, otherVars>>

\* line 258: ret = fn(device)
D258(t) ==
    /\ pc[t] = "D258"
    /\ \E r \in NativeRets : NativeCall(t, r, nat[t], "D259")

\* line 259: _amdgpuCheckReturn(ret)
D259(t) ==
    /\ pc[t] = "D259"
    /\ Checked(t, <<>>)
    /\ UNCHANGED <<globalVars, loadHist, opens, nativeCalls, loadedAtCall,
                   op, name, loc, fd, fn, ret, nat, calls, otherVars>>

\* line 265: ret = fn(device, byref(c_info)); a failing call leaves c_info zeroed
Q265(t) ==
    /\ pc[t] = "Q265"
    /\ \E r \in NativeRets :
        \E f \in (IF r = 0 THEN {143, 148} ELSE {0}) :
            NativeCall(t, r, [nat[t] EXCEPT !.info.vals["family_id"] = f], "Q266")

\* lines 266-267: _amdgpuCheckReturn(ret); return c_info
Q266(t) ==
    /\ pc[t] = "Q266"
    /\ Checked(t, nat[t].info)
    /\ UNCHANGED <<globalVars, loadHist, opens, nativeCalls, loadedAtCall,
                   op, name, loc, fd, fn, ret, nat, calls, otherVars>>

\* the caller receives the outcome; the frame's locals go away
Done(t) ==
    /\ pc[t] = "done"
    /\ pc' = [pc EXCEPT ![t] = "idle"]
    /\ op' = [op EXCEPT ![t] = ""]
    /\ name' = [name EXCEPT ![t] = ""]
    /\ loc' = [loc EXCEPT ![t] = 0]
    /\ fd' = [fd EXCEPT ![t] = 0]
    /\ fn' = [fn EXCEPT ![t] = NoFn]
    /\ ret' = [ret EXCEPT ![t] = 0]
    /\ nat' = [nat EXCEPT ![t] = <<>>]
    /\ result' = [result EXCEPT ![t] = NoResult]
    /\ nativeCalls' = [nativeCalls EXCEPT ![t] = 0]
    /\ loadedAtCall' = [loadedAtCall EXCEPT ![t] = FALSE]
    /\ UNCHANGED <<globalVars, loadHist, opens, calls, otherVars>>

Init == InitSession /\ InitErrIdle /\ InitMarshalIdle

Next ==
    \E t \in Threads :
        \/ Call_load(t) \/ Call_resolve(t) \/ Call_initialize(t)
        \/ Call_deinitialize(t) \/ Call_query(t)
        \/ L214(t) \/ L215(t) \/ L217(t) \/ L228_ok(t) \/ L228_OSError(t)
        \/ L232(t) \/ L235(t)
        \/ R85(t) \/ R88(t) \/ R90(t) \/ R93(t) \/ R98(t)
        \/ I242_open(t) \/ I242_OSError(t) \/ I251(t) \/ I252(t)
        \/ D258(t) \/ D259(t) \/ Q265(t) \/ Q266(t)
        \/ Done(t)

Spec == Init /\ [][Next]_vars

InitE == InitSession /\ platform = "linux" /\ InitErr /\ InitMarshalIdle
NextE ==
    \/ ErrConstruct /\ UNCHANGED <<sessionVars, marshalVars>>
    \/ ErrCompare /\ UNCHANGED <<sessionVars, marshalVars>>
    \/ ErrTranslate /\ UNCHANGED <<sessionVars, marshalVars>>
SpecErr == InitE /\ [][NextE]_vars

InitM == InitSession /\ platform = "linux" /\ InitErrIdle /\ InitMarshal
NextM ==
    \/ MarshalToFriendly /\ UNCHANGED <<sessionVars, errVars>>
    \/ MarshalToStruct /\ UNCHANGED <<sessionVars, errVars>>
SpecMarshal == InitM /\ [][NextM]_vars

(***************************************************************************)
(* Properties.                                                             *)
(***************************************************************************)
Sentinels == {AMDGPU_ERROR_UNINITIALIZED, AMDGPU_ERROR_FUNCTION_NOT_FOUND,
              AMDGPU_ERROR_LIBRARY_NOT_FOUND}
DeviceOps == {"initialize", "deinitialize", "query"}
RaisesCode(r, code) == r.kind = "raise" /\ r.exc = "AMDGPUError" /\ r.err.value = code

\* C1: under any interleaving of load() and resolve() calls the handle amdgpuLib is
\* assigned at most once: at most one CDLL call ever succeeds, and once the handle is
\* set no step changes or resets it.
C1_AssignedAtMostOnce ==
    [][(amdgpuLib # None => amdgpuLib' = amdgpuLib) /\ loadSuccesses' <= 1]_vars

\* a second thread holds the lock inside load() after another thread set the handle
C1_Witness ==
    /\ amdgpuLib # None
    /\ \E t \in Threads : pc[t] = "L217" /\ op[t] = "load"

\* C2 as claimed: whatever the candidates do, all calls of load() together walk the
\* candidate list at most once.
C2_WalkedAtMostOnce == walks <= 1

\* C2 as amended: at most one CDLL call succeeds and the list is walked again only
\* while no load has succeeded, so every walk but the last one failed on every
\* candidate, and once the handle is set exactly one walk did not fail.
C2_WalkedOnlyWhileUnloaded ==
    /\ loadSuccesses <= 1
    /\ walks <= failedWalks + 1
    /\ (amdgpuLib # None => walks = failedWalks + 1 /\ loadSuccesses = 1)

\* a failed load, a later load that succeeded, and a third call that found the handle
C2_Witness ==
    /\ failedWalks >= 1
    /\ amdgpuLib # None
    /\ \E t \in Threads :
          pc[t] = "done" /\ op[t] = "load" /\ loadedAtCall[t] /\ result[t].kind = "return"

\* C3: with the library loaded, resolve(name) of a symbol the library lacks raises
\* FunctionNotFound on every call; a miss adds nothing to the cache, whose entries
\* are all pointers to symbols of the library.
C3_MissNeverCached ==
    /\ amdgpuLib # None =>
          \A n \in DOMAIN cache : n \in amdgpuLib.syms /\ cache[n] = FnPointer(amdgpuLib, n)
    /\ \A t \in Threads :
          (pc[t] = "done" /\ op[t] = "resolve" /\ loadedAtCall[t]
             /\ name[t] \notin amdgpuLib.syms)
          => RaisesCode(result[t], AMDGPU_ERROR_FUNCTION_NOT_FOUND)

\* two calls of resolve for the same absent symbol have both ended
C3_Witness ==
    \E t, u \in Threads :
        /\ t # u /\ name[t] = name[u]
        /\ \A x \in {t, u} :
              /\ pc[x] = "done" /\ op[x] = "resolve" /\ loadedAtCall[x]
              /\ name[x] \notin amdgpuLib.syms
              /\ RaisesCode(result[x], AMDGPU_ERROR_FUNCTION_NOT_FOUND)

\* C4: while no load has succeeded the cache is empty, and resolve, deinitialize and
\* query_gpu_info end with Uninitialized without invoking a native entry point.
C4_UninitializedBeforeLoad ==
    amdgpuLib = None =>
        /\ DOMAIN cache = {}
        /\ \A t \in Threads :
              (pc[t] = "done" /\ op[t] \in {"resolve", "deinitialize", "query"})
              => /\ RaisesCode(result[t], AMDGPU_ERROR_UNINITIALIZED)
                 /\ nativeCalls[t] = 0

\* after a load that raised LibraryNotFound, query_gpu_info raised Uninitialized
C4_Witness ==
    /\ amdgpuLib = None
    /\ failedWalks >= 1
    /\ \E t \in Threads :
          pc[t] = "done" /\ op[t] = "query"
          /\ RaisesCode(result[t], AMDGPU_ERROR_UNINITIALIZED)

\* C5: an operation whose entry point the loaded library lacks ends with
\* FunctionNotFound, and an operation that ends with FunctionNotFound has invoked no
\* native entry point.
C5_NoNativeCallOnMissingSymbol ==
    \A t \in Threads :
        pc[t] = "done" =>
            /\ RaisesCode(result[t], AMDGPU_ERROR_FUNCTION_NOT_FOUND) => nativeCalls[t] = 0
            /\ (/\ op[t] \in DeviceOps /\ name[t] # ""
                /\ amdgpuLib # None /\ name[t] \notin amdgpuLib.syms
                /\ (loadedAtCall[t] \/ op[t] = "initialize"))
               => /\ RaisesCode(result[t], AMDGPU_ERROR_FUNCTION_NOT_FOUND)
                  /\ nativeCalls[t] = 0

\* query_gpu_info on a loaded library without amdgpu_query_gpu_info has ended
C5_Witness ==
    \E t \in Threads :
        /\ pc[t] = "done" /\ op[t] = "query" /\ loadedAtCall[t]
        /\ "amdgpu_query_gpu_info" \notin amdgpuLib.syms
        /\ RaisesCode(result[t], AMDGPU_ERROR_FUNCTION_NOT_FOUND)

\* C6: a device operation returns a value exactly when its native entry point was
\* called and returned 0; on a nonzero return it raises the error built from that
\* code and returns nothing; on 0 initialize returns the (major, minor, device) the
\* native call wrote and query_gpu_info the record the native call filled.
C6_ResultIffZeroReturn ==
    \A t \in Threads :
        (pc[t] = "done" /\ op[t] \in DeviceOps) =>
            /\ result[t].kind = "return" <=> (nativeCalls[t] = 1 /\ ret[t] = 0)
            /\ (nativeCalls[t] = 1 /\ ret[t] # 0) =>
                  /\ RaisesCode(result[t], IF ret[t] \in Sentinels THEN ret[t] ELSE -ret[t])
                  /\ result[t].value = <<>>
            /\ (result[t].kind = "return" /\ op[t] = "initialize") =>
                  /\ nat[t] \in InitWrites
                  /\ result[t].value = <<nat[t].major, nat[t].minor, nat[t].device>>
            /\ (result[t].kind = "return" /\ op[t] = "query") =>
                  /\ nat[t].info.vals["family_id"] \in {143, 148}
                  /\ result[t].value = nat[t].info

\* initialize ended after its native call returned -12 having written the version
C6_Witness ==
    \E t \in Threads :
        /\ pc[t] = "done" /\ op[t] = "initialize"
        /\ nativeCalls[t] = 1 /\ ret[t] = -12 /\ nat[t].major = 3
        /\ RaisesCode(result[t], 12)

\* C7 as claimed: the errors built from a and b compare equal iff a = b, and the
\* error built from a compares equal to the integer a.
C7_EqualIffSameCode ==
    epc \in {"compared", "translated"} => (eqErr <=> codeA = codeB) /\ eqInt

\* C7 as amended: the errors built from a and b compare equal iff a = b or one of
\* them is a sentinel and the other its negation; the error built from a compares
\* equal to the integer a iff a is 0 or a sentinel, and always to the integer it
\* stores: a for a sentinel, -a otherwise; it never equals a non-integer.
C7_EqualIffSameStoredCode ==
    epc \in {"compared", "translated"} =>
        /\ eqErr <=> \/ codeA = codeB
                     \/ codeA \in Sentinels /\ codeB = -codeA
                     \/ codeB \in Sentinels /\ codeA = -codeB
        /\ eqInt <=> (codeA = 0 \/ codeA \in Sentinels)
        /\ AMDGPUError_eq(errA, PyInt(IF codeA \in Sentinels THEN codeA ELSE -codeA))
        /\ ~eqOther

\* the errors built from 99999 and from the sentinel -99999 compared equal
C7_Witness ==
    epc = "compared" /\ codeA = 99999 /\ codeB = -99999 /\ eqErr /\ ~eqInt

\* C8: translate(0) produces no error; a sentinel gives its fixed message; every
\* other nonzero code is negated and looked up in the errno table, giving the errno
\* name when present and the unknown-error message otherwise.
C8_SentinelMessageOnlyForSentinels ==
    epc = "translated" =>
        IF codeA = 0 THEN chk.kind = "return" /\ msg = <<>>
        ELSE /\ chk.kind = "raise"
             /\ msg = IF codeA \in Sentinels
                      THEN <<"AMDGPU error", codeA, _extend_errcode_to_string[codeA]>>
                      ELSE IF -codeA \in ErrnoCodes
                      THEN <<"AMDGPU error", -codeA, ErrnoName(-codeA)>>
                      ELSE <<"Unknown AMDGPU error", -codeA>>

\* C9: converting a record to the friendly object and packing that back into a
\* record of the same layout succeeds and yields a record equal in every field.
C9_RoundTrip ==
    mpc = "back" => mBack.kind = "return" /\ mBack.value.vals = mStruct.vals

\* C10: initialize opens the device file only after the library is loaded, resolves
\* only after the open, calls only after the resolve, and the descriptor it opened
\* stays open on every later path; the descriptors open equal the successful opens.
C10_DescriptorNeverClosed ==
    /\ Cardinality(openFds) = opens
    /\ \A t \in Threads :
          /\ pc[t] = "I242" => amdgpuLib # None /\ fd[t] = 0
          /\ fd[t] # 0 => fd[t] \in openFds /\ op[t] = "initialize" /\ amdgpuLib # None
          /\ (op[t] = "initialize" /\ pc[t] \in {"R85", "R88", "R90", "R93", "R98"})
             => fd[t] # 0 /\ nativeCalls[t] = 0
          /\ (op[t] = "initialize" /\ pc[t] \in {"I251", "I252"})
             => fd[t] # 0 /\ fn[t] = FnPointer(amdgpuLib, "amdgpu_device_initialize")
          /\ (op[t] = "initialize" /\ pc[t] = "done" /\ result[t].exc # "OSError"
                /\ ~RaisesCode(result[t], AMDGPU_ERROR_LIBRARY_NOT_FOUND))
             => fd[t] \in openFds

\* two initialize calls opened descriptors; one failed in the native call and one
\* failed to resolve, and both descriptors are still open
C10_Witness ==
    /\ opens = 2 /\ Cardinality(openFds) = 2
    /\ \E t, u \in Threads :
          /\ pc[t] = "done" /\ op[t] = "initialize" /\ fd[t] \in openFds
          /\ \/ nativeCalls[t] = 1 /\ ret[t] # 0
             \/ RaisesCode(result[t], AMDGPU_ERROR_FUNCTION_NOT_FOUND)
          /\ u # t /\ op[u] = "initialize" /\ fd[u] \in openFds /\ fd[u] # fd[t]

====
